---- MODULE Spec2Model ----
(***************************************************************************)
(* Model of shell/model/homemodel.py: HomeModel, the registry of running   *)
(* activities of the Sugar shell.  The registry reacts to three window     *)
(* manager signals (window-opened, window-closed, active-window-changed)   *)
(* and to two launcher notifications, and emits five signals.              *)
(*                                                                         *)
(* A HomeActivity object is a handle into `heap'; handles compare by       *)
(* identity, as Python objects without __eq__ do.  A handle stays          *)
(* allocated for as long as the registry refers to it.                     *)
(***************************************************************************)
EXTENDS Integers, Sequences, FiniteSets, TLC

\* ---------------------------------------------------------------- bounds
MaxXid == 3          \* window identifiers are 1..MaxXid
MaxId == 1           \* activity ids are 1..MaxId
MaxActivities == 3   \* no record is created beyond this registry length
MaxInflight == 2     \* SetActive calls that may await their reply at once
MaxServiceId == 3    \* activity ids of SpecCalls are the odd ids up to this one
MaxCallActivities == 2   \* registry length SpecCalls stays within

\* Python's None, for object references, xids and activity ids alike.
None == 0

Xids == 1..MaxXid
ActivityIds == 1..MaxId
Handles == 1..(MaxActivities + 2)

\* wnck window types: only NORMAL and DIALOG are told apart by the code.
WINDOW_NORMAL == "normal"
WINDOW_DIALOG == "dialog"
WINDOW_OTHER == "other"
WindowTypes == {WINDOW_NORMAL, WINDOW_DIALOG, WINDOW_OTHER}

\* Bundle service names: the bundle registry knows the first and not the second.
KnownService == "known"
UnknownService == "unknown"
ServiceNames == {KnownService, UnknownService}

VARIABLES
    activities,        \* self._activities: sequence of handles
    active_activity,   \* self._active_activity: handle or None
    pending_activity,  \* self._pending_activity: handle or None
    heap,              \* handle -> the HomeActivity's fields
    windows,           \* window manager: xid -> [open, type, transient]
    stacked,           \* window manager: the open normal windows, bottom to top
    log,               \* what the last handler emitted, called and logged
    last,              \* the last event delivered and its outcome
    balance,           \* normal windows opened minus normal windows closed
    seen_xids,         \* xids of the windows opened so far (SpecWindows)
    seen_ids,          \* activity ids of the normal windows opened so far
    ids_distinct,      \* no normal window repeated an activity id so far
    inflight           \* SetActive calls issued and not yet answered (SpecCalls)

vars == <<activities, active_activity, pending_activity, heap, windows, stacked,
          log, last, balance, seen_xids, seen_ids, ids_distinct, inflight>>

hist == <<seen_xids, seen_ids, ids_distinct, inflight>>

\* ------------------------------------------------------------- sequences
InSeq(x, s) == \E i \in 1..Len(s) : s[i] = x

\* list.index(x): the first position of x (1-based), 0 when x is not in s.
IndexOf(x, s) ==
    IF InSeq(x, s) THEN CHOOSE i \in 1..Len(s) : s[i] = x /\ \A j \in 1..(i - 1) : s[j] # x
    ELSE 0

\* list.remove(x): s without the first occurrence of x.
RemoveFirst(x, s) ==
    LET i == IndexOf(x, s)
    IN  IF i = 0 THEN s ELSE SubSeq(s, 1, i - 1) \o SubSeq(s, i + 1, Len(s))

\* list.reverse()
Reverse(s) == [i \in 1..Len(s) |-> s[Len(s) + 1 - i]]

SelectOut(x, s) == SelectSeq(s, LAMBDA y : y # x)

\* ----------------------------------------------------------- HomeActivity
\* HomeActivity(activity_info, activity_id): no window, not launching.  The
\* record only stores activity_info; the model never reads it back.
NewActivity(activity_id) ==
    [activity_id |-> activity_id, window |-> None, launching |-> FALSE]

Blank == NewActivity(None)

get_window(st, h) == st.heap[h].window
get_xid(st, h) == st.heap[h].window
get_activity_id(st, h) == st.heap[h].activity_id
set_window(st, h, xid) == [st EXCEPT !.heap[h].window = xid]
set_launching(st, h, b) == [st EXCEPT !.heap[h].launching = b]

\* The activities that answer on the session bus: the odd activity ids.
ServiceIds == {a \in 1..MaxServiceId : a % 2 = 1}

\* get_service(): the activity's remote control service, when it has one.
get_service(st, h) == st.heap[h].activity_id \in ServiceIds

\* A handle no reference keeps alive.
FreeHandle(st) ==
    CHOOSE h \in Handles :
        /\ ~InSeq(h, st.activities)
        /\ h # st.active
        /\ h # st.pending
        /\ \A g \in Handles :
              (~InSeq(g, st.activities) /\ g # st.active /\ g # st.pending) => h <= g

\* --------------------------------------------------------------- signals
\* self.emit(sig, arg), and the calls and error logs of the handlers.  Each
\* entry keeps what a subscriber sees when it is called: whether arg is in
\* the registry, has a window, is launching, is the active and the pending
\* activity, and whether every registered record has exactly one of a window
\* and the launching flag.
Emit(st, sig, arg) ==
    [st EXCEPT !.log = Append(@,
        [sig |-> sig, arg |-> arg,
         member |-> InSeq(arg, st.activities),
         window |-> (arg # None /\ st.heap[arg].window # None),
         launching |-> (arg # None /\ st.heap[arg].launching),
         is_active |-> (arg = st.active),
         is_pending |-> (arg = st.pending),
         settled |-> \A i \in 1..Len(st.activities) :
                        (st.heap[st.activities[i]].window # None)
                            # st.heap[st.activities[i]].launching])]

\* service.SetActive(flag, ...) on h's service: issued, never awaited.
SetActive(st, h, flag) ==
    Emit(st, IF flag THEN "SetActive(True)" ELSE "SetActive(False)", h)

\* logging.error(...)
LogError(st, msg) == Emit(st, msg, None)

\* ----------------------------------------------------------------- model
_get_activities_with_window(st) ==
    SelectSeq(st.activities, LAMBDA h : get_window(st, h) # None)

\* What an accessor yields when the ValueError of list.index leaves it, and
\* what a handler yields when it raises.
Raise == -1

get_previous_activity(st) ==
    LET acts == _get_activities_with_window(st)
        i == IndexOf(st.pending, acts)
    IN  IF i = 0 THEN Raise
        ELSE IF Len(acts) = 0 THEN None
        ELSE IF i - 1 >= 1 THEN acts[i - 1]
        ELSE acts[Len(acts)]

\* get_next_activity that stays on the last windowed record instead of
\* wrapping to the first.
Mut_get_next_no_wrap(st) ==
    LET acts == _get_activities_with_window(st)
        i == IndexOf(st.pending, acts)
    IN  IF i = 0 THEN Raise
        ELSE IF Len(acts) = 0 THEN None
        ELSE IF i + 1 <= Len(acts) THEN acts[i + 1]
        ELSE acts[i]

get_next_activity(st) ==
    LET acts == _get_activities_with_window(st)
        i == IndexOf(st.pending, acts)
    IN  IF i = 0 THEN Raise
        ELSE IF Len(acts) = 0 THEN None
        ELSE IF i + 1 <= Len(acts) THEN acts[i + 1]
        ELSE acts[1]

get_pending_activity(st) == st.pending

get_active_activity(st) == st.active

_set_pending_activity(st, home_activity) ==
    IF st.pending = home_activity THEN st
    ELSE Emit([st EXCEPT !.pending = home_activity],
              "pending-activity-changed", home_activity)

\* _set_active_activity without the early return of lines 131-132.
Mut_set_active_always(st, home_activity) ==
    LET s1 == IF st.active # None /\ get_service(st, st.active)
              THEN SetActive(st, st.active, FALSE) ELSE st
        s2 == IF home_activity # None /\ get_service(s1, home_activity)
              THEN SetActive(s1, home_activity, TRUE) ELSE s1
    IN  Emit([s2 EXCEPT !.active = home_activity],
             "active-activity-changed", home_activity)

\* _set_active_activity that updates _active_activity and emits
\* active-activity-changed before it calls the services.
Mut_set_active_emit_first(st, home_activity) ==
    IF st.active = home_activity THEN st
    ELSE LET s0 == Emit([st EXCEPT !.active = home_activity],
                        "active-activity-changed", home_activity)
             s1 == IF st.active # None /\ get_service(st, st.active)
                   THEN SetActive(s0, st.active, FALSE) ELSE s0
         IN  IF home_activity # None /\ get_service(s1, home_activity)
             THEN SetActive(s1, home_activity, TRUE) ELSE s1

_set_active_activity(st, home_activity) ==
    IF st.active = home_activity THEN st
    ELSE LET s1 == IF st.active # None /\ get_service(st, st.active)
                   THEN SetActive(st, st.active, FALSE) ELSE st
             s2 == IF home_activity # None /\ get_service(s1, home_activity)
                   THEN SetActive(s1, home_activity, TRUE) ELSE s1
         IN  Emit([s2 EXCEPT !.active = home_activity],
                  "active-activity-changed", home_activity)

\* reply_handler of SetActive: pass.
_set_active_success(st) == st

\* error_handler of SetActive: logging.error only.
_set_active_error(st, err) == LogError(st, "set_active() failed")

_get_activity_by_xid(st, xid) ==
    LET hit == SelectSeq(st.activities, LAMBDA h : get_xid(st, h) = xid)
    IN  IF hit = <<>> THEN None ELSE hit[1]

_get_activity_by_id(st, activity_id) ==
    LET hit == SelectSeq(st.activities, LAMBDA h : get_activity_id(st, h) = activity_id)
    IN  IF hit = <<>> THEN None ELSE hit[1]

\* _add_activity that inserts the record at the front of the list.
Mut_add_activity_front(st, home_activity) ==
    Emit([st EXCEPT !.activities = <<home_activity>> \o @],
         "activity-added", home_activity)

_add_activity(st, home_activity) ==
    Emit([st EXCEPT !.activities = Append(@, home_activity)],
         "activity-added", home_activity)

\* The scan of _remove_activity: the record of the first tracked window of
\* wins (the stacking list reversed), None when the loop runs to its else.
FirstTracked(st, wins) ==
    LET hit == SelectSeq(wins, LAMBDA x : _get_activity_by_xid(st, x) # None)
    IN  IF hit = <<>> THEN None ELSE _get_activity_by_xid(st, hit[1])

\* _remove_activity without lines 231-232: the active activity is not reset.
Mut_remove_keeps_active(st, home_activity, stack) ==
    LET new_activity == FirstTracked(st, Reverse(stack))
        s2 == IF home_activity = st.pending
              THEN IF new_activity # None
                   THEN _set_pending_activity(st, new_activity)
                   ELSE _set_pending_activity(
                            LogError(st, "No activities are running"), None)
              ELSE st
        s3 == Emit(s2, "activity-removed", home_activity)
    IN  [s3 EXCEPT !.activities = RemoveFirst(home_activity, @)]

\* _remove_activity with lines 247 and 248 swapped: the record is dropped
\* before activity-removed is emitted.
Mut_remove_before_emit(st, home_activity, stack) ==
    LET s1 == IF home_activity = st.active
              THEN _set_active_activity(st, None) ELSE st
        new_activity == FirstTracked(s1, Reverse(stack))
        s2 == IF home_activity = s1.pending
              THEN IF new_activity # None
                   THEN _set_pending_activity(s1, new_activity)
                   ELSE _set_pending_activity(
                            LogError(s1, "No activities are running"), None)
              ELSE s1
    IN  Emit([s2 EXCEPT !.activities = RemoveFirst(home_activity, @)],
             "activity-removed", home_activity)

\* _remove_activity without the scan of lines 236-242: a removed pending
\* activity is never replaced.
Mut_remove_without_scan(st, home_activity, stack) ==
    LET s1 == IF home_activity = st.active
              THEN _set_active_activity(st, None) ELSE st
        s2 == IF home_activity = s1.pending
              THEN _set_pending_activity(
                       LogError(s1, "No activities are running"), None)
              ELSE s1
        s3 == Emit(s2, "activity-removed", home_activity)
    IN  [s3 EXCEPT !.activities = RemoveFirst(home_activity, @)]

_remove_activity(st, home_activity, stack) ==
    LET s1 == IF home_activity = st.active
              THEN _set_active_activity(st, None) ELSE st
        new_activity == FirstTracked(s1, Reverse(stack))
        s2 == IF home_activity = s1.pending
              THEN IF new_activity # None
                   THEN _set_pending_activity(s1, new_activity)
                   ELSE _set_pending_activity(
                            LogError(s1, "No activities are running"), None)
              ELSE s1
        s3 == Emit(s2, "activity-removed", home_activity)
    IN  [s3 EXCEPT !.activities = RemoveFirst(home_activity, @)]

\* _remove_activity_by_xid that never finds the record.
Mut_remove_by_xid_not_found(st, xid, stack) ==
    LogError(st, "Model for window does not exist.")

_remove_activity_by_xid(st, xid, stack) ==
    LET home_activity == _get_activity_by_xid(st, xid)
    IN  IF home_activity # None
        THEN _remove_activity(st, home_activity, stack)
        ELSE LogError(st, "Model for window does not exist.")

\* _window_opened_cb without lines 187-188: the first window does not become
\* the pending activity.
Mut_window_opened_no_pending(st, xid, type, activity_id) ==
    IF type = WINDOW_NORMAL
    THEN LET found == IF activity_id # None
                      THEN _get_activity_by_id(st, activity_id) ELSE None
             home_activity == IF found = None THEN FreeHandle(st) ELSE found
             s1 == IF found = None
                   THEN _add_activity(
                            [st EXCEPT !.heap[home_activity] = NewActivity(activity_id)],
                            home_activity)
                   ELSE st
             s2 == set_window(s1, home_activity, xid)
             s3 == set_launching(s2, home_activity, FALSE)
         IN  Emit(s3, "activity-started", home_activity)
    ELSE st

\* _window_opened_cb without line 183: the launching flag stays as it was.
Mut_window_opened_keeps_launching(st, xid, type, activity_id) ==
    IF type = WINDOW_NORMAL
    THEN LET found == IF activity_id # None
                      THEN _get_activity_by_id(st, activity_id) ELSE None
             home_activity == IF found = None THEN FreeHandle(st) ELSE found
             s1 == IF found = None
                   THEN _add_activity(
                            [st EXCEPT !.heap[home_activity] = NewActivity(activity_id)],
                            home_activity)
                   ELSE st
             s2 == set_window(s1, home_activity, xid)
             s4 == Emit(s2, "activity-started", home_activity)
         IN  IF s4.pending = None
             THEN _set_pending_activity(s4, home_activity) ELSE s4
    ELSE st

_window_opened_cb(st, xid, type, activity_id) ==
    IF type = WINDOW_NORMAL
    THEN LET found == IF activity_id # None
                      THEN _get_activity_by_id(st, activity_id) ELSE None
             home_activity == IF found = None THEN FreeHandle(st) ELSE found
             s1 == IF found = None
                   THEN _add_activity(
                            [st EXCEPT !.heap[home_activity] = NewActivity(activity_id)],
                            home_activity)
                   ELSE st
             s2 == set_window(s1, home_activity, xid)
             s3 == set_launching(s2, home_activity, FALSE)
             s4 == Emit(s3, "activity-started", home_activity)
         IN  IF s4.pending = None
             THEN _set_pending_activity(s4, home_activity) ELSE s4
    ELSE st

_window_closed_cb(st, xid, type, stack) ==
    IF type = WINDOW_NORMAL
    THEN _remove_activity_by_xid(st, xid, stack)
    ELSE st

\* window.get_transient(): the parent's xid, None when there is none.
get_transient(wins, xid) == wins[xid].transient

\* while window.get_transient() is not None: window = window.get_transient()
RECURSIVE TopTransient(_, _)
TopTransient(wins, xid) ==
    IF get_transient(wins, xid) # None
    THEN TopTransient(wins, get_transient(wins, xid))
    ELSE xid

\* _active_window_changed_cb without the test of line 217: a dialog is
\* replaced by its topmost transient ancestor too.
Mut_active_window_dialog_walks(st, wins, window) ==
    IF window = None THEN st
    ELSE LET top == TopTransient(wins, window)
             activity == _get_activity_by_xid(st, top)
         IN  IF activity # None
             THEN _set_active_activity(_set_pending_activity(st, activity), activity)
             ELSE st

\* _active_window_changed_cb without line 223: only active is set.
Mut_active_window_active_only(st, wins, window) ==
    IF window = None THEN st
    ELSE LET top == IF wins[window].type # WINDOW_DIALOG
                    THEN TopTransient(wins, window) ELSE window
             activity == _get_activity_by_xid(st, top)
         IN  IF activity # None
             THEN _set_active_activity(st, activity)
             ELSE st

_active_window_changed_cb(st, wins, window) ==
    IF window = None THEN st
    ELSE LET top == IF wins[window].type # WINDOW_DIALOG
                    THEN TopTransient(wins, window) ELSE window
             activity == _get_activity_by_xid(st, top)
         IN  IF activity # None
             THEN _set_active_activity(_set_pending_activity(st, activity), activity)
             ELSE st

\* registry.get_activity(service_name): the bundle's info, None when unknown.
registry_get_activity(service_name) ==
    IF service_name = KnownService THEN "info" ELSE "none"

\* notify_activity_launch without lines 259-261: the record is created
\* whatever the bundle registry answers.
Mut_launch_unchecked(st, activity_id, service_name) ==
    LET home_activity == FreeHandle(st)
        s1 == [st EXCEPT !.heap[home_activity] = NewActivity(activity_id)]
        s2 == set_launching(s1, home_activity, TRUE)
    IN  _add_activity(s2, home_activity)

\* An unknown service name raises ValueError before anything is created;
\* the log keeps the exception.
notify_activity_launch(st, activity_id, service_name) ==
    IF registry_get_activity(service_name) = "none"
    THEN Emit(st, "ValueError", None)
    ELSE LET home_activity == FreeHandle(st)
             s1 == [st EXCEPT !.heap[home_activity] = NewActivity(activity_id)]
             s2 == set_launching(s1, home_activity, TRUE)
         IN  _add_activity(s2, home_activity)

\* notify_activity_launch_failed whose else branch also drops the pending
\* activity.
Mut_launch_failed_clears_pending(st, activity_id, stack) ==
    LET home_activity == _get_activity_by_id(st, activity_id)
    IN  IF home_activity # None
        THEN _remove_activity(st, home_activity, stack)
        ELSE _set_pending_activity(
                 LogError(st, "Model for activity id does not exist."), None)

notify_activity_launch_failed(st, activity_id, stack) ==
    LET home_activity == _get_activity_by_id(st, activity_id)
    IN  IF home_activity # None
        THEN _remove_activity(st, home_activity, stack)
        ELSE LogError(st, "Model for activity id does not exist.")

\* ------------------------------------------------------------ the machine
\* The registry as the handlers see it, with nothing emitted yet.
St ==
    [activities |-> activities, active |-> active_activity,
     pending |-> pending_activity, heap |-> heap, log |-> <<>>]

Referenced(st, h) == InSeq(h, st.activities) \/ h = st.active \/ h = st.pending

\* Handles are object identities and carry no meaning of their own: when a
\* handler returns, the objects are renamed so that the i-th record of the
\* registry is handle i, a pending (then an active) object that is no longer
\* in the registry comes next, and then the object the handler removed.
Rename(st) ==
    LET n == Len(st.activities)
        pd == IF st.pending # None /\ ~InSeq(st.pending, st.activities) THEN 1 ELSE 0
        ad == IF st.active # None /\ ~InSeq(st.active, st.activities)
                 /\ st.active # st.pending THEN 1 ELSE 0
    IN  [h \in Handles \cup {None} |->
            IF h = None THEN None
            ELSE IF InSeq(h, st.activities) THEN IndexOf(h, st.activities)
            ELSE IF h = st.pending THEN n + 1
            ELSE IF h = st.active THEN n + 1 + pd
            ELSE n + 1 + pd + ad]

\* The handler has returned the registry `result'; objects nothing refers
\* to any more are collected.
Commit(result) ==
    \E st \in {result} : \E ren \in {Rename(st)} :
        /\ activities' = [i \in 1..Len(st.activities) |-> ren[st.activities[i]]]
        /\ active_activity' = ren[st.active]
        /\ pending_activity' = ren[st.pending]
        /\ heap' = [k \in Handles |->
                       IF \E h \in Handles : Referenced(st, h) /\ ren[h] = k
                       THEN st.heap[CHOOSE h \in Handles : Referenced(st, h) /\ ren[h] = k]
                       ELSE Blank]
        /\ log' = [i \in 1..Len(st.log) |-> [st.log[i] EXCEPT !.arg = ren[@]]]

Closed == [open |-> FALSE, type |-> WINDOW_OTHER, transient |-> None]

OpenXids == {x \in Xids : windows[x].open}

\* The last event: its name, the window it was about, the activity id it
\* came with, and what an accessor returned.
Event(op, xid, id, ret) ==
    [op |-> op, xid |-> xid, id |-> id, ret |-> ret, service |-> ""]

\* The handler left by an exception.
Raised(st) == \E i \in 1..Len(st.log) : st.log[i].sig = "ValueError"

\* The SetActive calls a handler issued.
Issued(l) ==
    Len(SelectSeq(l, LAMBDA e : e.sig \in {"SetActive(True)", "SetActive(False)"}))

TypeOK ==
    /\ activities \in Seq(Handles)
    /\ active_activity \in Handles \cup {None}
    /\ pending_activity \in Handles \cup {None}
    /\ \A h \in Handles : heap[h].window \in Xids \cup {None}
    /\ \A x \in Xids : windows[x].type \in WindowTypes
    /\ balance \in Int

\* __init__: an empty registry; the screen has no window yet.
Init ==
    /\ activities = <<>>
    /\ active_activity = None
    /\ pending_activity = None
    /\ heap = [h \in Handles |-> Blank]
    /\ windows = [x \in Xids |-> Closed]
    /\ stacked = <<>>
    /\ log = <<>>
    /\ last = Event("init", None, None, None)
    /\ balance = 0
    /\ seen_xids = {}
    /\ seen_ids = {}
    /\ ids_distinct = TRUE
    /\ inflight = 0

\* The window manager maps window xid (on top of the stack) and the screen
\* emits window-opened.  activity_id is what wm.get_activity_id reads from
\* the window; it is read for normal windows only.  Normal windows are not
\* opened as transients of another window.  The stacking list
\* keeps the normal windows only: no other window is ever tracked, and the
\* scan of _remove_activity skips the windows that are not.
WindowOpenedCore(xid, type, activity_id, transient) ==
    /\ ~windows[xid].open
    /\ transient \in OpenXids \cup {None}
    /\ type = WINDOW_NORMAL => transient = None
    /\ type # WINDOW_NORMAL => activity_id = None
    /\ (type = WINDOW_NORMAL
          /\ (activity_id = None \/ _get_activity_by_id(St, activity_id) = None))
       => Len(activities) < MaxActivities
    /\ windows' = [windows EXCEPT ![xid] =
                       [open |-> TRUE, type |-> type, transient |-> transient]]
    /\ stacked' = IF type = WINDOW_NORMAL THEN Append(stacked, xid) ELSE stacked
    /\ Commit(_window_opened_cb(St, xid, type, activity_id))
    /\ last' = Event("window-opened", xid, activity_id, None)
    /\ balance' = IF type = WINDOW_NORMAL THEN balance + 1 ELSE balance

\* The window is gone from the screen's lists when window-closed is emitted.
WindowClosedCore(xid) ==
    /\ windows[xid].open
    /\ windows' = [x \in Xids |->
                       IF x = xid THEN Closed
                       ELSE IF windows[x].transient = xid
                            THEN [windows[x] EXCEPT !.transient = None]
                            ELSE windows[x]]
    /\ stacked' = SelectOut(xid, stacked)
    /\ Commit(_window_closed_cb(St, xid, windows[xid].type, stacked'))
    /\ last' = Event("window-closed", xid, None, None)
    /\ balance' = IF windows[xid].type = WINDOW_NORMAL THEN balance - 1 ELSE balance

WindowOpened ==
    \E xid \in Xids, type \in WindowTypes, activity_id \in ActivityIds \cup {None},
       transient \in Xids \cup {None} :
        /\ WindowOpenedCore(xid, type, activity_id, transient)
        /\ UNCHANGED hist

WindowClosed ==
    \E xid \in Xids :
        /\ WindowClosedCore(xid)
        /\ UNCHANGED hist

\* The screen's active window becomes window (None: no window is active)
\* and the screen emits active-window-changed.
ActiveWindowChangedCore(window) ==
    /\ Commit(_active_window_changed_cb(St, windows, window))
    /\ last' = Event("active-window-changed", window, None, None)
    /\ UNCHANGED <<windows, stacked, balance>>

ActiveWindowChanged ==
    \E window \in OpenXids \cup {None} :
        /\ ActiveWindowChangedCore(window)
        /\ UNCHANGED hist

\* The window manager raises a window; the model is not told.
RestackCore(xid) ==
    /\ InSeq(xid, stacked)
    /\ stacked[Len(stacked)] # xid
    /\ stacked' = Append(SelectOut(xid, stacked), xid)
    /\ log' = <<>>
    /\ last' = Event("restack", None, None, None)
    /\ UNCHANGED <<activities, active_activity, pending_activity, heap,
                   windows, balance>>

Restack ==
    \E xid \in OpenXids :
        /\ RestackCore(xid)
        /\ UNCHANGED hist

NotifyActivityLaunchCore(activity_id, service_name) ==
    /\ service_name = KnownService => Len(activities) < MaxActivities
    /\ \E res \in {notify_activity_launch(St, activity_id, service_name)} :
          /\ Commit(res)
          /\ last' = [Event("notify_activity_launch", None, activity_id,
                            IF Raised(res) THEN Raise ELSE None)
                          EXCEPT !.service = service_name]
    /\ UNCHANGED <<windows, stacked, balance>>

NotifyActivityLaunch ==
    \E activity_id \in ActivityIds, service_name \in ServiceNames :
        /\ NotifyActivityLaunchCore(activity_id, service_name)
        /\ UNCHANGED hist

NotifyActivityLaunchFailedCore(activity_id) ==
    /\ Commit(notify_activity_launch_failed(St, activity_id, stacked))
    /\ last' = Event("notify_activity_launch_failed", None, activity_id, None)
    /\ UNCHANGED <<windows, stacked, balance>>

NotifyActivityLaunchFailed ==
    \E activity_id \in ActivityIds :
        /\ NotifyActivityLaunchFailedCore(activity_id)
        /\ UNCHANGED hist

GetNextActivityCore ==
    /\ last' = Event("get_next_activity", None, None, get_next_activity(St))
    /\ log' = <<>>
    /\ UNCHANGED <<activities, active_activity, pending_activity, heap, windows,
                   stacked, balance>>

GetNextActivity == GetNextActivityCore /\ UNCHANGED hist

GetPreviousActivityCore ==
    /\ last' = Event("get_previous_activity", None, None, get_previous_activity(St))
    /\ log' = <<>>
    /\ UNCHANGED <<activities, active_activity, pending_activity, heap, windows,
                   stacked, balance>>

GetPreviousActivity == GetPreviousActivityCore /\ UNCHANGED hist

Next ==
    \/ WindowOpened
    \/ WindowClosed
    \/ ActiveWindowChanged
    \/ Restack
    \/ NotifyActivityLaunch
    \/ NotifyActivityLaunchFailed
    \/ GetNextActivity
    \/ GetPreviousActivity

Spec == Init /\ [][Next]_vars

\* Window events only, every window with an xid no earlier window had.
WindowOpenedFresh ==
    \E xid \in Xids \ seen_xids, type \in WindowTypes,
       activity_id \in ActivityIds \cup {None}, transient \in Xids \cup {None} :
        /\ WindowOpenedCore(xid, type, activity_id, transient)
        /\ seen_xids' = seen_xids \cup {xid}
        /\ seen_ids' = IF activity_id # None THEN seen_ids \cup {activity_id}
                       ELSE seen_ids
        /\ ids_distinct' = (ids_distinct /\ activity_id \notin seen_ids)
        /\ inflight' = inflight

WindowClosedAfter ==
    \E xid \in Xids :
        /\ WindowClosedCore(xid)
        /\ UNCHANGED hist

NextWindows == WindowOpenedFresh \/ WindowClosedAfter

SpecWindows == Init /\ [][NextWindows]_vars

\* The events that change the registry, with the session bus: every SetActive
\* call a handler issues awaits its reply, and the replies arrive at any later
\* time, in any order with the other events.  The windows of these events
\* are normal windows, and their activities all expose the service (their ids
\* are ServiceIds) or have no id.
Event_WindowOpened ==
    \E xid \in Xids, activity_id \in ServiceIds \cup {None} :
        WindowOpenedCore(xid, WINDOW_NORMAL, activity_id, None)

Event_WindowClosed == \E xid \in Xids : WindowClosedCore(xid)

Event_ActiveWindowChanged ==
    \E window \in OpenXids \cup {None} : ActiveWindowChangedCore(window)

Event_Restack == \E xid \in OpenXids : RestackCore(xid)

Event_NotifyActivityLaunch ==
    \E activity_id \in ServiceIds, service_name \in ServiceNames :
        NotifyActivityLaunchCore(activity_id, service_name)

Event_NotifyActivityLaunchFailed ==
    \E activity_id \in ServiceIds : NotifyActivityLaunchFailedCore(activity_id)

Calls(event) ==
    /\ event
    /\ inflight' = inflight + Issued(log')
    /\ inflight' <= MaxInflight
    /\ Len(activities') <= MaxCallActivities
    /\ UNCHANGED <<seen_xids, seen_ids, ids_distinct>>

\* The reply of one SetActive call arrives: reply_handler is called.
SetActiveSuccess ==
    /\ inflight > 0
    /\ inflight' = inflight - 1
    /\ Commit(_set_active_success(St))
    /\ last' = Event("_set_active_success", None, None, None)
    /\ UNCHANGED <<windows, stacked, balance, seen_xids, seen_ids, ids_distinct>>

\* One SetActive call fails: error_handler is called.
SetActiveError ==
    /\ inflight > 0
    /\ inflight' = inflight - 1
    /\ Commit(_set_active_error(St, "err"))
    /\ last' = Event("_set_active_error", None, None, None)
    /\ UNCHANGED <<windows, stacked, balance, seen_xids, seen_ids, ids_distinct>>

NextCalls ==
    \/ Calls(Event_WindowOpened)
    \/ Calls(Event_WindowClosed)
    \/ Calls(Event_ActiveWindowChanged)
    \/ Calls(Event_Restack)
    \/ Calls(Event_NotifyActivityLaunch)
    \/ Calls(Event_NotifyActivityLaunchFailed)
    \/ SetActiveSuccess
    \/ SetActiveError

SpecCalls == Init /\ [][NextCalls]_vars

\* ------------------------------------------------------------- properties
Logged(sig, arg) == \E i \in 1..Len(log) : log[i].sig = sig /\ log[i].arg = arg

LoggedSig(sig) == \E i \in 1..Len(log) : log[i].sig = sig

HasWindow(h) == heap[h].window # None

Removal == last.op \in {"window-closed", "notify_activity_launch_failed"}

\* C1: after every handler, pendingActivity is none or a record that is in
\* activities and has a window; it never points at a record that was removed.
C1_PendingIsTrackedWithWindow ==
    pending_activity # None =>
        InSeq(pending_activity, activities) /\ HasWindow(pending_activity)

\* C2: in every reachable state, activeActivity is none or a record that is
\* in activities.
C2_ActiveInActivities ==
    active_activity # None => InSeq(active_activity, activities)

\* The active record has just been removed while other records stay.
C2_Witness ==
    /\ Removal
    /\ Logged("active-activity-changed", None)
    /\ LoggedSig("activity-removed")
    /\ activities # <<>>

\* C3, as claimed: pendingActivity is none only when activities is empty.
C3_PendingNoneOnlyWhenEmpty ==
    pending_activity = None => activities = <<>>

\* C3, amended: after every handler, pendingActivity is none only when no
\* record in activities has a window (activities is empty or holds launching
\* records only).
C3_PendingNoneOnlyWithoutWindows ==
    pending_activity = None =>
        \A i \in 1..Len(activities) : ~HasWindow(activities[i])

\* The last window of the registry has just been closed and pending went to
\* none while a launching record stays.
C3_Witness ==
    /\ last.op = "window-closed"
    /\ Logged("pending-activity-changed", None)
    /\ pending_activity = None
    /\ activities # <<>>

\* C4: whenever a record in activities has a window, getPendingActivity()
\* returns a record, not none.
C4_PendingWhileWindowed ==
    _get_activities_with_window(St) # <<>> => get_pending_activity(St) # None

\* The pending record has just lost its window and another record took over.
C4_Witness ==
    /\ last.op = "window-closed"
    /\ \E i \in 1..Len(log) :
          log[i].sig = "pending-activity-changed" /\ log[i].arg # None
    /\ LoggedSig("activity-removed")
    /\ get_pending_activity(St) # None

\* C5: no two records in activities have the same non-absent activityId.
C5_UniqueActivityIds ==
    \A i, j \in 1..Len(activities) :
        (i # j /\ heap[activities[i]].activity_id # None)
            => heap[activities[i]].activity_id # heap[activities[j]].activity_id

\* C6: getNextActivity and getPreviousActivity return none, and do not
\* raise, when no record in activities has a window.
C6_NoneWithoutWindows ==
    (last.op \in {"get_next_activity", "get_previous_activity"}
        /\ _get_activities_with_window(St) = <<>>)
    => last.ret = None

\* The topmost window of the stack that a record of the registry holds.
TopTrackedXid ==
    LET tracked == SelectSeq(stacked, LAMBDA x :
                       \E i \in 1..Len(activities) : heap[activities[i]].window = x)
    IN  IF tracked = <<>> THEN None ELSE tracked[Len(tracked)]

\* C7: when the window of the pending activity is closed while other records
\* with windows exist, pending becomes the tracked record whose window is
\* topmost in the stacking order among the remaining windows: it has a
\* window, is not the record removed, and pending-activity-changed carries it.
C7_PendingReplacedByTopmost ==
    [][(/\ last'.op = "window-closed"
        /\ pending_activity # None
        /\ heap[pending_activity].window = last'.xid
        /\ \E i \in 1..Len(activities) :
              activities[i] # pending_activity /\ HasWindow(activities[i]))
       => (/\ pending_activity' # None
           /\ InSeq(pending_activity', activities')
           /\ heap'[pending_activity'].window # None
           /\ heap'[pending_activity'].window # last'.xid
           /\ heap'[pending_activity'].window = TopTrackedXid'
           /\ \E i \in 1..Len(log') :
                 /\ log'[i].sig = "pending-activity-changed"
                 /\ log'[i].arg = pending_activity')]_vars

\* The five signals of the model, as they appear in the log.
Signals ==
    {"activity-added", "activity-started", "activity-removed",
     "active-activity-changed", "pending-activity-changed"}

SignalsOf(l) == SelectSeq(l, LAMBDA e : e.sig \in Signals)

SigNames(l) == [i \in 1..Len(l) |-> l[i].sig]

\* The record the last event is about to remove, as the handler finds it.
Removed(ev) ==
    IF ev.op = "window-closed"
    THEN IF windows[ev.xid].type = WINDOW_NORMAL
         THEN _get_activity_by_xid(St, ev.xid) ELSE None
    ELSE IF ev.op = "notify_activity_launch_failed"
    THEN _get_activity_by_id(St, ev.id)
    ELSE None

\* C8: a removal emits active-activity-changed(none) if the record was
\* active, then pending-activity-changed (only if it was pending), then
\* activity-removed, and only then drops the record: the record is still in
\* activities when activity-removed is emitted and is gone afterwards.
C8_RemovalOrder ==
    [][Removed(last') # None =>
        LET sigs == SignalsOf(log')
            n == Len(sigs)
            names == SigNames(sigs)
            wasActive == Removed(last') = active_activity
            wasPending == Removed(last') = pending_activity
        IN  /\ n >= 1
            /\ sigs[n].sig = "activity-removed"
            /\ sigs[n].member
            /\ ~InSeq(sigs[n].arg, activities')
            /\ Len(activities') = Len(activities) - 1
            /\ log'[Len(log')] = sigs[n]
            /\ names \in {<<"activity-removed">>,
                          <<"active-activity-changed", "activity-removed">>,
                          <<"pending-activity-changed", "activity-removed">>,
                          <<"active-activity-changed", "pending-activity-changed",
                            "activity-removed">>}
            /\ wasActive <=> (names[1] = "active-activity-changed"
                                 /\ sigs[1].arg = None)
            /\ (\E i \in 1..n : names[i] = "pending-activity-changed") => wasPending
       ]_vars

\* The record removed was active and pending, and all three signals went out.
C8_Witness ==
    /\ Removal
    /\ SigNames(SignalsOf(log)) = <<"active-activity-changed",
                                    "pending-activity-changed", "activity-removed">>
    /\ log[Len(log)].member
    /\ ~InSeq(log[Len(log)].arg, activities)

\* C9: opening a normal window whose activityId matches a launching record
\* reuses that record: activities keeps its size, activity-started is
\* emitted for the record and activity-added is not, the window is attached
\* to it and its launching flag is cleared.
C9_LaunchingRecordReused ==
    [][(/\ last'.op = "window-opened"
        /\ windows'[last'.xid].type = WINDOW_NORMAL
        /\ last'.id # None
        /\ \E i \in 1..Len(activities) :
              /\ heap[activities[i]].activity_id = last'.id
              /\ heap[activities[i]].launching)
       => (/\ Len(activities') = Len(activities)
           /\ ~\E k \in 1..Len(log') : log'[k].sig = "activity-added"
           /\ \E i \in 1..Len(activities) :
                 /\ heap[activities[i]].activity_id = last'.id
                 /\ heap[activities[i]].launching
                 /\ \E k \in 1..Len(log') :
                       /\ log'[k].sig = "activity-started"
                       /\ log'[k].arg = activities'[i]
                 /\ heap'[activities'[i]].window = last'.xid
                 /\ ~heap'[activities'[i]].launching)]_vars

\* C10, as claimed: with window events only and windows of distinct xids,
\* len(activities) is the number of normal opens minus normal closes.
C10_LenIsBalance == Len(activities) = balance

\* C10, amended: the same, for windows that also have distinct activity ids
\* where they have one.
C10_LenIsBalanceDistinctIds == ids_distinct => Len(activities) = balance

\* Two normal windows with distinct ids were opened and one was closed.
C10_Witness ==
    /\ ids_distinct
    /\ last.op = "window-closed"
    /\ LoggedSig("activity-removed")
    /\ balance = 1
    /\ Len(activities) = 1

\* C11: closing the window of the last record that has a window leaves
\* pendingActivity none and logs the 'No activities are running' error.
C11_LastWindowClosed ==
    [][(/\ last'.op = "window-closed"
        /\ Removed(last') # None
        /\ \A i \in 1..Len(activities) :
              activities[i] # Removed(last') => ~HasWindow(activities[i]))
       => (/\ pending_activity' = None
           /\ \E k \in 1..Len(log') : log'[k].sig = "No activities are running")
      ]_vars

\* C12: notify_activity_launch with a service name the bundle registry does
\* not know raises the lookup error and leaves the registry as it was: no
\* record is added, activities, active and pending are unchanged, and
\* activity-added is not emitted.
C12_UnknownServiceLaunch ==
    [][(last'.op = "notify_activity_launch" /\ last'.service = UnknownService)
       => (/\ last'.ret = Raise
           /\ activities' = activities
           /\ active_activity' = active_activity
           /\ pending_activity' = pending_activity
           /\ heap' = heap
           /\ SignalsOf(log') = <<>>)]_vars

\* A launch with an unknown service name was refused while the registry had
\* records and a pending activity.
C12_Witness ==
    /\ last.op = "notify_activity_launch"
    /\ last.service = UnknownService
    /\ last.ret = Raise
    /\ Len(activities) >= 1
    /\ pending_activity # None

\* The records with a window, in registry order.
Windowed == SelectSeq(activities, HasWindow)

\* C13: with n >= 1 records with a window and the pending activity at index
\* i of them (from 0), get_next_activity returns the one at (i + 1) mod n and
\* get_previous_activity the one at (i - 1) mod n; neither changes
\* activities, active or pending.
C13_NextPreviousCyclic ==
    [][last'.op \in {"get_next_activity", "get_previous_activity"} =>
        LET n == Len(Windowed)
            i == IndexOf(pending_activity, Windowed) - 1
        IN  /\ UNCHANGED <<activities, active_activity, pending_activity, heap>>
            /\ (n >= 1 /\ i >= 0) =>
                  last'.ret = IF last'.op = "get_next_activity"
                              THEN Windowed[((i + 1) % n) + 1]
                              ELSE Windowed[((i + n - 1) % n) + 1]
      ]_vars

\* get_next_activity wrapped from the last of three windowed records to the
\* first.
C13_Witness ==
    /\ last.op = "get_next_activity"
    /\ Len(Windowed) = 3
    /\ pending_activity = Windowed[3]
    /\ last.ret = Windowed[1]

\* get_previous_activity wrapped from the first windowed record to the last.
C13_WitnessPrevious ==
    /\ last.op = "get_previous_activity"
    /\ Len(Windowed) = 3
    /\ pending_activity = Windowed[1]
    /\ last.ret = Windowed[3]

\* The window an active-window-changed event resolves to: a dialog itself,
\* any other window its topmost transient ancestor.
ResolvedXid(w) ==
    IF windows[w].type = WINDOW_DIALOG THEN w ELSE TopTransient(windows, w)

\* The first record of activities whose window is xid, None without one.
RecordOfXid(xid) ==
    LET I == {i \in 1..Len(activities) : heap[activities[i]].window = xid}
    IN  IF I = {} THEN None
        ELSE activities[CHOOSE i \in I : \A j \in I : i <= j]

\* The record an active-window-changed event for window w resolves to.
Resolved(w) == IF w = None THEN None ELSE RecordOfXid(ResolvedXid(w))

Count(l, sig) == Len(SelectSeq(l, LAMBDA e : e.sig = sig))

\* C14: setting active or pending to the value it already has does nothing:
\* of two consecutive active-window-changed events that resolve to the same
\* record, the second emits nothing and issues no call, so both together
\* emit active-activity-changed and pending-activity-changed at most once
\* and issue SetActive(True) at most once.
\* (An active-window-changed event leaves the windows and the records as
\* they are, so the first event resolved as it would now.)
C14_SetSameValueIsNoop ==
    [][(/\ last.op = "active-window-changed"
        /\ last'.op = "active-window-changed"
        /\ Resolved(last.xid) # None
        /\ Resolved(last'.xid) = Resolved(last.xid))
       => (/\ log' = <<>>
           /\ Count(log \o log', "active-activity-changed") <= 1
           /\ Count(log \o log', "SetActive(True)") <= 1
           /\ Count(log \o log', "pending-activity-changed") <= 1
           /\ UNCHANGED <<activities, active_activity, pending_activity, heap>>)
      ]_vars

\* An active-window-changed event for the window of the record that is
\* already active and pending, and has the service, went by silently.
C14_Witness ==
    /\ last.op = "active-window-changed"
    /\ Resolved(last.xid) # None
    /\ Resolved(last.xid) = active_activity
    /\ Resolved(last.xid) = pending_activity
    /\ heap[active_activity].activity_id \in ServiceIds
    /\ log = <<>>

\* C15: a normal window that matches no record gets a new one: activity-added
\* and activity-started are emitted in this order, then
\* pending-activity-changed if there was no pending activity, all with the
\* new record; the record is the last of activities and is the pending
\* activity if there was none.
C15_NewWindowNewRecord ==
    [][(/\ last'.op = "window-opened"
        /\ windows'[last'.xid].type = WINDOW_NORMAL
        /\ \/ last'.id = None
           \/ \A i \in 1..Len(activities) :
                 heap[activities[i]].activity_id # last'.id)
       => LET n == Len(activities')
              new == activities'[n]
          IN  /\ n = Len(activities) + 1
              /\ SubSeq(activities', 1, n - 1) = activities
              /\ heap'[new] = [activity_id |-> last'.id, window |-> last'.xid,
                               launching |-> FALSE]
              /\ SigNames(log') =
                    IF pending_activity = None
                    THEN <<"activity-added", "activity-started",
                           "pending-activity-changed">>
                    ELSE <<"activity-added", "activity-started">>
              /\ \A k \in 1..Len(log') : log'[k].arg = new
              /\ pending_activity = None => pending_activity' = new
      ]_vars

\* A window got a new record behind a launching one and, as nothing was
\* pending, became the pending activity.
C15_Witness ==
    /\ last.op = "window-opened"
    /\ SigNames(log) = <<"activity-added", "activity-started",
                         "pending-activity-changed">>
    /\ Len(activities) >= 2
    /\ pending_activity = activities[Len(activities)]
    /\ heap[pending_activity].window = last.xid

\* C16: window-closed for a normal window no record has, and
\* notify_activity_launch_failed for an id no record has, log one error,
\* leave activities, active and pending unchanged and emit no signal.
C16_UnknownRemovalIgnored ==
    [][(/\ Removed(last') = None
        /\ \/ last'.op = "notify_activity_launch_failed"
           \/ /\ last'.op = "window-closed"
              /\ windows[last'.xid].type = WINDOW_NORMAL)
       => (/\ UNCHANGED <<activities, active_activity, pending_activity, heap>>
           /\ SigNames(log') =
                 IF last'.op = "window-closed"
                 THEN <<"Model for window does not exist.">>
                 ELSE <<"Model for activity id does not exist.">>)
      ]_vars

\* A launch failure for an id without a record was logged and ignored while
\* the registry had a pending activity.
C16_Witness ==
    /\ last.op = "notify_activity_launch_failed"
    /\ SigNames(log) = <<"Model for activity id does not exist.">>
    /\ Len(activities) >= 1
    /\ pending_activity # None

\* The window of a record that was replaced on it was closed: the error was
\* logged and the registry kept its records.
C16_WitnessWindow ==
    /\ last.op = "window-closed"
    /\ SigNames(log) = <<"Model for window does not exist.">>
    /\ Len(activities) >= 1
    /\ pending_activity # None

\* C17: an active-window-changed event with no active window, or whose
\* window (a dialog itself, any other window its topmost transient ancestor)
\* is the window of no record, changes nothing and emits nothing; when a
\* record matches, pending and active both become that record, pending
\* first.
C17_ActiveWindowChanged ==
    [][last'.op = "active-window-changed" =>
        LET activity == Resolved(last'.xid)
        IN  IF activity = None
            THEN /\ log' = <<>>
                 /\ UNCHANGED <<activities, active_activity, pending_activity,
                                heap>>
            ELSE /\ pending_activity' = activity
                 /\ active_activity' = activity
                 /\ activities' = activities
                 /\ \A i \in 1..Len(activities) :
                       heap'[activities[i]] = heap[activities[i]]
                 /\ \A j, k \in 1..Len(log') :
                       (/\ log'[j].sig = "pending-activity-changed"
                        /\ log'[k].sig # "pending-activity-changed") => j < k
                 /\ \A k \in 1..Len(log') :
                       log'[k].sig = "active-activity-changed"
                           => log'[k].arg = activity /\ log'[k].is_pending
                 /\ (pending_activity # activity)
                        = (Count(log', "pending-activity-changed") = 1)
                 /\ (active_activity # activity)
                        = (Count(log', "active-activity-changed") = 1)
      ]_vars

\* A window that is not a dialog became the active window and the record of
\* its transient parent became active and pending.
C17_Witness ==
    /\ last.op = "active-window-changed"
    /\ last.xid # None
    /\ windows[last.xid].type = WINDOW_OTHER
    /\ windows[last.xid].transient # None
    /\ Resolved(last.xid) # None
    /\ active_activity = Resolved(last.xid)
    /\ pending_activity = Resolved(last.xid)
    /\ SigNames(SignalsOf(log)) =
          <<"pending-activity-changed", "active-activity-changed">>

\* A dialog of a tracked window became the active window: nothing changed.
C17_WitnessDialog ==
    /\ last.op = "active-window-changed"
    /\ last.xid # None
    /\ windows[last.xid].type = WINDOW_DIALOG
    /\ windows[last.xid].transient # None
    /\ RecordOfXid(windows[last.xid].transient) # None
    /\ log = <<>>

\* C18: after every handler each record of activities has exactly one of a
\* window and the launching flag.  While a handler runs, the only signal
\* emitted with a registered record that has neither is the activity-added
\* of a record that window-opened has just created.
C18_WindowXorLaunching ==
    /\ \A i \in 1..Len(activities) :
          HasWindow(activities[i]) # heap[activities[i]].launching
    /\ \A k \in 1..Len(log) :
          ~log[k].settled =>
              /\ log[k].sig = "activity-added"
              /\ last.op = "window-opened"
              /\ log[k].member
              /\ ~log[k].window
              /\ ~log[k].launching
              /\ \A j \in 1..Len(log) : j # k => log[j].settled

\* A launching record got its window while another record is launching.
C18_Witness ==
    /\ last.op = "window-opened"
    /\ SigNames(log) = <<"activity-started">>
    /\ log[1].window
    /\ ~log[1].launching
    /\ \E i \in 1..Len(activities) : heap[activities[i]].launching

\* A window got a new record, which had neither a window nor the launching
\* flag when activity-added was emitted.
C18_WitnessAdded ==
    /\ last.op = "window-opened"
    /\ Len(log) >= 2
    /\ log[1].sig = "activity-added"
    /\ ~log[1].settled
    /\ log[2].settled
    /\ Len(activities) >= 2

\* C20: after every handler, if activeActivity is not none then
\* pendingActivity is the same record.
C20_ActiveIsPending ==
    active_activity # None => pending_activity = active_activity

\* A window was opened while another one's record is active and pending.
C20_Witness ==
    /\ last.op = "window-opened"
    /\ windows[last.xid].type = WINDOW_NORMAL
    /\ Len(activities) >= 2
    /\ active_activity # None
    /\ pending_activity = active_activity
    /\ heap[active_activity].window # last.xid

\* The calls and the signal of the active-change protocol, as a handler
\* issued them.
Protocol(l) ==
    SelectSeq(l, LAMBDA e : e.sig \in {"SetActive(False)", "SetActive(True)",
                                       "active-activity-changed"})

HasService(hp, h) == h # None /\ hp[h].activity_id \in ServiceIds

\* C19: when the active activity changes from A to B, the handler calls
\* SetActive(False) on A's service if A has one, then SetActive(True) on B's
\* if B has one, then updates activeActivity and emits
\* active-activity-changed; it returns with the calls unanswered.  A reply
\* or an error that arrives later, between any other events, changes
\* nothing, emits nothing and issues no call.
C19_SetActiveProtocol ==
    [][/\ last'.op \notin {"_set_active_success", "_set_active_error"} =>
            /\ inflight' = inflight + Issued(log')
            /\ IF Count(log', "active-activity-changed") = 0
               THEN /\ Issued(log') = 0
                    /\ (active_activity' = None) = (active_activity = None)
               ELSE LET p == Protocol(log')
                        n == Len(p)
                    IN  /\ SigNames(p) =
                              (IF HasService(heap, active_activity)
                               THEN <<"SetActive(False)">> ELSE <<>>)
                              \o (IF HasService(heap', active_activity')
                                  THEN <<"SetActive(True)">> ELSE <<>>)
                              \o <<"active-activity-changed">>
                        /\ p[n].arg = active_activity'
                        /\ p[n].is_active
                        /\ \A k \in 1..(n - 1) :
                              IF p[k].sig = "SetActive(False)"
                              THEN p[k].is_active /\ p[k].arg # None
                              ELSE ~p[k].is_active /\ p[k].arg = active_activity'
       /\ last'.op \in {"_set_active_success", "_set_active_error"} =>
            /\ inflight' = inflight - 1
            /\ SignalsOf(log') = <<>>
            /\ Issued(log') = 0
            /\ UNCHANGED <<activities, active_activity, pending_activity, heap,
                           windows, stacked>>
      ]_vars

\* The active activity changed between two records that have the service:
\* both calls were issued, in order, and neither is answered yet.
C19_Witness ==
    /\ last.op = "active-window-changed"
    /\ SigNames(Protocol(log)) =
          <<"SetActive(False)", "SetActive(True)", "active-activity-changed">>
    /\ inflight = 2
    /\ active_activity # None

\* The error of a call arrived after the registry had lost all its records.
C19_WitnessLateError ==
    /\ last.op = "_set_active_error"
    /\ SigNames(log) = <<"set_active() failed">>
    /\ activities = <<>>
    /\ inflight = 0

====
